---- MODULE Spec2Model ----
(***************************************************************************)
(* PeriodicTableApp (src/src/app.js): the orchestration layer that loads   *)
(* config and element data through `parser`, attaches the UI listeners,    *)
(* renders through `renderer.generate` and exports through                 *)
(* `renderer.downloadSVG`.                                                  *)
(*                                                                         *)
(* The event loop is modelled at the granularity of the code's suspension  *)
(* points: every action is one run-to-completion piece of JavaScript (a    *)
(* call up to its first await, a promise continuation, or a DOM event      *)
(* dispatch with all the listeners attached to it).                        *)
(***************************************************************************)
EXTENDS Naturals, Sequences, FiniteSets, TLC

\* Number of init() calls followed (the bootstrap call plus later calls).
MaxInits == 2

Inits == 1..MaxInits

\* `null` of the constructor; a loaded value is tagged with the init() call
\* whose loadData obtained it from the parser.
Null == 0

\* Values the theme selector can emit; Theme is the set of known themes.
Theme == {"light", "dark"}
ThemeValues == Theme \cup {"neon"}

\* Values the size selector can emit.
Layout == {"normal", "compact"}
LayoutValues == Layout

\* DOM ids the code looks up; any of them may be missing from the page.
DomIds == {"theme-select", "size-select", "export-svg", "table-container"}

\* The pages followed: the complete page, and each page missing one id.
DomChoices == {DomIds} \cup {DomIds \ {d} : d \in DomIds}

\* error.message of a parser rejection ("" is an error without a message).
RejectMessages == {"", "fetch failed"}

\* error.message of an exception thrown by renderer.generate.
ThrowMessages == {"generate failed"}

NoDataMessage == "No data loaded"
InitFailedMessage == "Initialization failed"

VARIABLES
    elements,       \* this.elements
    config,         \* this.config
    currentTheme,   \* this.currentTheme
    currentLayout,  \* this.currentLayout
    pc,             \* position of each init() call
    dom,            \* ids present in the document
    listeners,      \* number of listeners attached per target
    container,      \* innerHTML of #table-container
    lastOp,         \* the operation the last step ran
    genCalls,       \* renderer.generate calls made by the last step
    downloads,      \* renderer.downloadSVG calls made by the last step
    reported,       \* showError calls made by the last step
    genCount,       \* renderer.generate calls made by each init() call
    lastOk          \* arguments of the latest generate call that returned

vars == <<elements, config, currentTheme, currentLayout, pc, dom, listeners,
          container, lastOp, genCalls, downloads, reported, genCount, lastOk>>

----------------------------------------------------------------------------
\* Markup and helper values

EmptyMarkup ==
    [kind |-> "empty", message |-> "", elements |-> Null, config |-> Null,
     theme |-> "", layout |-> ""]

\* The error block showError writes.
ErrorMarkup(message) ==
    [kind |-> "error", message |-> message, elements |-> Null,
     config |-> Null, theme |-> "", layout |-> ""]

\* The document renderer.generate returns for its four arguments.
SvgMarkup(e, c, t, l) ==
    [kind |-> "svg", message |-> "", elements |-> e, config |-> c,
     theme |-> t, layout |-> l]

\* Variant of GenerateCall that passes the constructor's layout.
GenerateCallDefaultLayout(e, c, t, l, returned) ==
    [elements |-> e, config |-> c, theme |-> t, layout |-> "normal",
     returned |-> returned]

\* One renderer.generate call: its arguments and whether it returned.
GenerateCall(e, c, t, l, returned) ==
    [elements |-> e, config |-> c, theme |-> t, layout |-> l,
     returned |-> returned]

\* Variant of MessageOrDefault that drops error.message.
AlwaysDefaultMessage(message) == InitFailedMessage

\* error.message || 'Initialization failed'
MessageOrDefault(message) ==
    IF message = "" THEN InitFailedMessage ELSE message

\* Variant of HasData that tests config only.
HasDataConfigOnly(e, c) == c # Null

\* The guard of render(): both elements and config are set.
HasData(e, c) == e # Null /\ c # Null

\* The file name exportSVG builds.
ExportFilename(t, l) == "elementsfactory-" \o t \o "-" \o l \o ".svg"

\* Variant of ShowError that leaves the container alone.
ShowErrorNowhere(cont, message) == cont

\* showError: writes the error block when #table-container exists.
ShowError(cont, message) ==
    IF "table-container" \in dom THEN ErrorMarkup(message) ELSE cont

\* Variant of Render that calls generate a second time when it throws.
RenderWithRetry(e, c, t, l, cont, throws) ==
    IF e = Null \/ c = Null
    THEN [calls |-> <<>>, container |-> ShowError(cont, NoDataMessage),
          reported |-> <<NoDataMessage>>, threw |-> FALSE]
    ELSE IF throws
    THEN [calls |-> <<GenerateCall(e, c, t, l, FALSE),
                      GenerateCall(e, c, t, l, FALSE)>>,
          container |-> cont, reported |-> <<>>, threw |-> TRUE]
    ELSE [calls |-> <<GenerateCall(e, c, t, l, TRUE)>>,
          container |-> IF "table-container" \in dom
                        THEN SvgMarkup(e, c, t, l) ELSE cont,
          reported |-> <<>>, threw |-> FALSE]

\* render(): the effect of one call on the container, with the generate
\* calls and showError calls it makes; `throws` is whether generate throws.
Render(e, c, t, l, cont, throws) ==
    IF ~HasData(e, c)
    THEN [calls |-> <<>>, container |-> ShowError(cont, NoDataMessage),
          reported |-> <<NoDataMessage>>, threw |-> FALSE]
    ELSE IF throws
    THEN [calls |-> <<GenerateCall(e, c, t, l, FALSE)>>, container |-> cont,
          reported |-> <<>>, threw |-> TRUE]
    ELSE [calls |-> <<GenerateCall(e, c, t, l, TRUE)>>,
          container |-> IF "table-container" \in dom
                        THEN SvgMarkup(e, c, t, l) ELSE cont,
          reported |-> <<>>, threw |-> FALSE]

RECURSIVE Repeat(_, _)
\* s concatenated n times: n listeners each running the same handler.
Repeat(s, n) == IF n = 0 THEN <<>> ELSE s \o Repeat(s, n - 1)

NoOk == [some |-> FALSE, theme |-> "", layout |-> ""]

\* lastOk after the generate calls `calls`.
OkAfter(calls, prev) ==
    IF calls # <<>> /\ calls[Len(calls)].returned
    THEN [some |-> TRUE, theme |-> calls[Len(calls)].theme,
          layout |-> calls[Len(calls)].layout]
    ELSE prev

Op(name, value, i) == [op |-> name, value |-> value, init |-> i]

\* A promise continuation (microtask) of an init() call is pending: DOM
\* events and other tasks run only once the microtask queue has drained.
MicrotaskPending == \E i \in Inits : pc[i] = "loaded"

InFlight == {i \in Inits : pc[i] \in {"awaitConfig", "awaitElements"}}

----------------------------------------------------------------------------
Init ==
    /\ elements = Null
    /\ config = Null
    /\ currentTheme = "light"
    /\ currentLayout = "normal"
    /\ pc = [i \in Inits |-> "idle"]
    /\ dom \in DomChoices
    /\ listeners = [theme |-> 0, size |-> 0, export |-> 0, document |-> 0]
    /\ container = EmptyMarkup
    /\ lastOp = Op("new", "", 0)
    /\ genCalls = <<>>
    /\ downloads = <<>>
    /\ reported = <<>>
    /\ genCount = [i \in Inits |-> 0]
    /\ lastOk = NoOk

\* init() up to its first suspension: loadData() calls parser.loadConfig().
InitCall(i) ==
    /\ pc[i] = "idle"
    /\ \A j \in Inits : j < i => pc[j] # "idle"
    /\ ~MicrotaskPending
    /\ pc' = [pc EXCEPT ![i] = "awaitConfig"]
    /\ lastOp' = Op("init", "", i)
    /\ genCalls' = <<>>
    /\ downloads' = <<>>
    /\ reported' = <<>>
    /\ UNCHANGED <<elements, config, currentTheme, currentLayout, dom,
                   listeners, container, genCount, lastOk>>

\* parser.loadConfig() resolves: config is assigned, loadElements() called.
ConfigResolved(i) ==
    /\ pc[i] = "awaitConfig"
    /\ config' = i
    /\ pc' = [pc EXCEPT ![i] = "awaitElements"]
    /\ lastOp' = Op("configResolved", "", i)
    /\ genCalls' = <<>>
    /\ downloads' = <<>>
    /\ reported' = <<>>
    /\ UNCHANGED <<elements, currentTheme, currentLayout, dom, listeners,
                   container, genCount, lastOk>>

\* The load of init() call i rejects with `message`: loadData throws and the
\* catch block of init() reports it.
LoadRejected(i, at, message) ==
    /\ pc[i] = at
    /\ pc' = [pc EXCEPT ![i] = "loadFailed"]
    /\ container' = ShowError(container, MessageOrDefault(message))
    /\ reported' = <<MessageOrDefault(message)>>
    /\ lastOp' = Op("loadRejected", message, i)
    /\ genCalls' = <<>>
    /\ downloads' = <<>>
    /\ UNCHANGED <<elements, config, currentTheme, currentLayout, dom,
                   listeners, genCount, lastOk>>

\* parser.loadConfig() rejects.
ConfigRejected(i, message) == LoadRejected(i, "awaitConfig", message)

\* parser.loadElements() rejects.
ElementsRejected(i, message) == LoadRejected(i, "awaitElements", message)

\* parser.loadElements() resolves: elements is assigned and loadData returns.
ElementsResolved(i) ==
    /\ pc[i] = "awaitElements"
    /\ elements' = i
    /\ pc' = [pc EXCEPT ![i] = "loaded"]
    /\ lastOp' = Op("elementsResolved", "", i)
    /\ genCalls' = <<>>
    /\ downloads' = <<>>
    /\ reported' = <<>>
    /\ UNCHANGED <<config, currentTheme, currentLayout, dom, listeners,
                   container, genCount, lastOk>>

\* setupEventListeners with setupElementInteractivity: one more listener on
\* every target that exists.
SetupEventListeners(ls) ==
    [theme |-> ls.theme + (IF "theme-select" \in dom THEN 1 ELSE 0),
     size |-> ls.size + (IF "size-select" \in dom THEN 1 ELSE 0),
     export |-> ls.export + (IF "export-svg" \in dom THEN 1 ELSE 0),
     document |-> ls.document + 1]

\* init() after `await this.loadData()`: setupEventListeners, render, and the
\* catch block when generate throws.
InitContinue(i, throws, message) ==
    /\ pc[i] = "loaded"
    /\ LET r == Render(elements, config, currentTheme, currentLayout,
                       container, throws)
       IN /\ listeners' = SetupEventListeners(listeners)
          /\ genCalls' = r.calls
          /\ genCount' = [genCount EXCEPT ![i] = @ + Len(r.calls)]
          /\ lastOk' = OkAfter(r.calls, lastOk)
          /\ IF r.threw
             THEN /\ pc' = [pc EXCEPT ![i] = "renderFailed"]
                  /\ container' = ShowError(r.container,
                                            MessageOrDefault(message))
                  /\ reported' = r.reported
                                   \o <<MessageOrDefault(message)>>
             ELSE /\ pc' = [pc EXCEPT ![i] = "ready"]
                  /\ container' = r.container
                  /\ reported' = r.reported
    /\ lastOp' = Op("initContinue", "", i)
    /\ downloads' = <<>>
    /\ UNCHANGED <<elements, config, currentTheme, currentLayout, dom>>

\* Variant of SelectionAfterChange that drops values outside the known sets.
ValidatedSelectionAfterChange(current, value, n) ==
    IF n > 0 /\ value \in Theme \cup Layout THEN value ELSE current

\* currentTheme / currentLayout after a change event carrying `value`, run by
\* n attached listeners: each assigns e.target.value, with no validation.
SelectionAfterChange(current, value, n) == IF n > 0 THEN value ELSE current

\* A 'change' event on #theme-select: every attached listener assigns
\* currentTheme and calls render().
ThemeChange(value, throws) ==
    /\ "theme-select" \in dom
    /\ ~MicrotaskPending
    /\ LET n == listeners.theme
           t == SelectionAfterChange(currentTheme, value, n)
           r == Render(elements, config, t, currentLayout, container, throws)
       IN /\ currentTheme' = t
          /\ genCalls' = Repeat(r.calls, n)
          /\ reported' = Repeat(r.reported, n)
          /\ container' = IF n > 0 THEN r.container ELSE container
          /\ lastOk' = OkAfter(Repeat(r.calls, n), lastOk)
    /\ lastOp' = Op("themeChange", value, 0)
    /\ downloads' = <<>>
    /\ UNCHANGED <<elements, config, currentLayout, pc, dom, listeners,
                   genCount>>

\* Variant of LayoutChange whose listener assigns currentTheme instead.
LayoutChangeAssignsTheme(value, throws) ==
    /\ "size-select" \in dom
    /\ ~MicrotaskPending
    /\ LET n == listeners.size
           t == SelectionAfterChange(currentTheme, value, n)
           r == Render(elements, config, t, currentLayout, container, throws)
       IN /\ currentTheme' = t
          /\ genCalls' = Repeat(r.calls, n)
          /\ reported' = Repeat(r.reported, n)
          /\ container' = IF n > 0 THEN r.container ELSE container
          /\ lastOk' = OkAfter(Repeat(r.calls, n), lastOk)
    /\ lastOp' = Op("layoutChange", value, 0)
    /\ downloads' = <<>>
    /\ UNCHANGED <<elements, config, currentLayout, pc, dom, listeners,
                   genCount>>

\* A 'change' event on #size-select: every attached listener assigns
\* currentLayout and calls render().
LayoutChange(value, throws) ==
    /\ "size-select" \in dom
    /\ ~MicrotaskPending
    /\ LET n == listeners.size
           l == SelectionAfterChange(currentLayout, value, n)
           r == Render(elements, config, currentTheme, l, container, throws)
       IN /\ currentLayout' = l
          /\ genCalls' = Repeat(r.calls, n)
          /\ reported' = Repeat(r.reported, n)
          /\ container' = IF n > 0 THEN r.container ELSE container
          /\ lastOk' = OkAfter(Repeat(r.calls, n), lastOk)
    /\ lastOp' = Op("layoutChange", value, 0)
    /\ downloads' = <<>>
    /\ UNCHANGED <<elements, config, currentTheme, pc, dom, listeners,
                   genCount>>

\* exportSVG(): builds the file name from the current selection and calls
\* renderer.downloadSVG; n is the number of times it is run.
ExportSVG(n) ==
    /\ downloads' = Repeat(<<ExportFilename(currentTheme, currentLayout)>>, n)
    /\ genCalls' = <<>>
    /\ reported' = <<>>
    /\ UNCHANGED <<elements, config, currentTheme, currentLayout, pc, dom,
                   listeners, container, genCount, lastOk>>

\* A 'click' event on #export-svg: every attached listener calls exportSVG().
ExportClick ==
    /\ "export-svg" \in dom
    /\ ~MicrotaskPending
    /\ lastOp' = Op("exportClick", "", 0)
    /\ ExportSVG(listeners.export)

\* A direct call of the public method app.exportSVG().
ExportCall ==
    /\ ~MicrotaskPending
    /\ lastOp' = Op("exportSVG", "", 0)
    /\ ExportSVG(1)

\* A direct call of the public method app.render().
RenderCall(throws) ==
    /\ ~MicrotaskPending
    /\ LET r == Render(elements, config, currentTheme, currentLayout,
                       container, throws)
       IN /\ genCalls' = r.calls
          /\ reported' = r.reported
          /\ container' = r.container
          /\ lastOk' = OkAfter(r.calls, lastOk)
    /\ lastOp' = Op("render", "", 0)
    /\ downloads' = <<>>
    /\ UNCHANGED <<elements, config, currentTheme, currentLayout, pc, dom,
                   listeners, genCount>>

Next ==
    \/ \E i \in Inits : InitCall(i)
    \/ \E i \in Inits : ConfigResolved(i)
    \/ \E i \in Inits, m \in RejectMessages : ConfigRejected(i, m)
    \/ \E i \in Inits : ElementsResolved(i)
    \/ \E i \in Inits, m \in RejectMessages : ElementsRejected(i, m)
    \/ \E i \in Inits, t \in BOOLEAN, m \in ThrowMessages :
          InitContinue(i, t, m)
    \/ \E v \in ThemeValues, t \in BOOLEAN : ThemeChange(v, t)
    \/ \E v \in LayoutValues, t \in BOOLEAN : LayoutChange(v, t)
    \/ ExportClick
    \/ ExportCall
    \/ \E t \in BOOLEAN : RenderCall(t)

Spec == Init /\ [][Next]_vars

----------------------------------------------------------------------------
\* Properties

\* C1: render() with elements or config absent never calls renderer.generate
\* and reports 'No data loaded'; no generate call ever receives absent
\* elements or config.
RenderWithoutDataReportsNoData ==
    /\ \A k \in 1..Len(genCalls) :
          genCalls[k].elements # Null /\ genCalls[k].config # Null
    /\ (lastOp.op = "render" /\ (elements = Null \/ config = Null))
          => (genCalls = <<>> /\ reported = <<NoDataMessage>>)

\* render() was called after loadConfig resolved and before elements was set.
RenderWithoutDataWitness ==
    /\ lastOp.op = "render"
    /\ config # Null
    /\ elements = Null
    /\ genCalls = <<>>
    /\ reported = <<NoDataMessage>>

\* C2: a theme change to a known theme t in a loaded state with layout l
\* makes generate calls whose arguments are exactly t, l and the loaded
\* elements and config.
ThemeChangeRendersThemeAndLayout ==
    [][(/\ lastOp'.op = "themeChange"
        /\ lastOp'.value \in Theme
        /\ listeners.theme > 0)
       => (/\ elements # Null /\ config # Null
           /\ genCalls' # <<>>
           /\ \A k \in 1..Len(genCalls') :
                 /\ genCalls'[k].theme = lastOp'.value
                 /\ genCalls'[k].layout = currentLayout
                 /\ genCalls'[k].elements = elements
                 /\ genCalls'[k].config = config)]_vars

\* A change to 'dark' was rendered while the layout was 'compact'.
ThemeChangeRendersWitness ==
    /\ lastOp.op = "themeChange"
    /\ lastOp.value = "dark"
    /\ currentLayout = "compact"
    /\ genCalls # <<>>
    /\ genCalls[1].theme = "dark"
    /\ genCalls[1].layout = "compact"
    /\ genCalls[1].returned

\* C3 (as claimed): a theme change carrying a value outside the known themes
\* leaves currentTheme and currentLayout unchanged, yields InvalidTheme and
\* performs no re-render.
InvalidThemeLeavesStateUnchanged ==
    [][(/\ lastOp'.op = "themeChange"
        /\ lastOp'.value \notin Theme
        /\ listeners.theme > 0)
       => (/\ currentTheme' = currentTheme
           /\ currentLayout' = currentLayout
           /\ genCalls' = <<>>
           /\ \E k \in 1..Len(reported') : reported'[k] = "InvalidTheme")]_vars

\* C3 (amended): a theme change carrying a value outside the known themes is
\* not validated: it leaves currentLayout unchanged, sets currentTheme to
\* that value, reports no error and re-renders with the value passed to
\* renderer.generate.
InvalidThemeIsPassedThrough ==
    [][(/\ lastOp'.op = "themeChange"
        /\ lastOp'.value \notin Theme
        /\ listeners.theme > 0)
       => (/\ currentTheme' = lastOp'.value
           /\ currentLayout' = currentLayout
           /\ reported' = <<>>
           /\ genCalls' # <<>>
           /\ \A k \in 1..Len(genCalls') :
                 genCalls'[k].theme = lastOp'.value)]_vars

\* The unknown theme 'neon' was selected and handed to the generator.
InvalidThemeWitness ==
    /\ lastOp.op = "themeChange"
    /\ lastOp.value = "neon"
    /\ currentTheme = "neon"
    /\ genCalls # <<>>
    /\ genCalls[1].theme = "neon"

\* C4: at no point are two loadConfig/loadElements sequences in flight: a
\* second init() during a suspended one starts no second load.
AtMostOneLoadInFlight == Cardinality(InFlight) <= 1

\* C5: once no load is in flight (every init() has succeeded or failed),
\* elements and config are either both absent or both present: a failed load
\* sets neither.
LoadIsAllOrNothing ==
    InFlight = {} => ((elements = Null) <=> (config = Null))

\* C6: each init() call makes exactly one generate call when its data load
\* succeeds and none when its data load fails (or has not completed).
InitRendersOncePerSuccessfulLoad ==
    \A i \in Inits :
       /\ pc[i] \in {"ready", "renderFailed"} => genCount[i] = 1
       /\ pc[i] \notin {"ready", "renderFailed"} => genCount[i] = 0

\* One init() call has rendered after its load, in a run where another
\* failed its load, and one had generate throw in its render.
InitRendersOnceWitness ==
    \E i, j \in Inits :
       /\ pc[i] = "loadFailed" /\ genCount[i] = 0
       /\ pc[j] \in {"ready", "renderFailed"} /\ genCount[j] = 1

\* C7: an export from the export button calls renderer.downloadSVG only if
\* some render has succeeded before.
ExportOnlyAfterSuccessfulRender ==
    (lastOp.op = "exportClick" /\ downloads # <<>>) => lastOk.some

\* C8: the file name handed to renderer.downloadSVG is built from the theme
\* and layout passed to the generator in the most recent successful render.
ExportFilenameOfLastSuccessfulRender ==
    (downloads # <<>> /\ lastOk.some)
       => \A k \in 1..Len(downloads) :
             downloads[k] = ExportFilename(lastOk.theme, lastOk.layout)

\* C9: once an init() has succeeded, between events #table-container shows
\* the document generated for the current theme and layout.
DisplayShowsCurrentSelection ==
    (/\ \E i \in Inits : pc[i] = "ready"
     /\ ~MicrotaskPending
     /\ "table-container" \in dom)
       => (/\ container.kind = "svg"
           /\ container.theme = currentTheme
           /\ container.layout = currentLayout)

\* C10: while an init() call is suspended in its data load, a theme change,
\* layout change or export event mutates neither currentTheme nor
\* currentLayout and causes no generate and no downloadSVG call.
InteractionDuringLoadHasNoEffect ==
    [][(/\ InFlight # {}
        /\ lastOp'.op \in {"themeChange", "layoutChange", "exportClick"})
       => (/\ currentTheme' = currentTheme
           /\ currentLayout' = currentLayout
           /\ genCalls' = <<>>
           /\ downloads' = <<>>)]_vars

\* C11 (as claimed): on every error outcome (render with no data, failed
\* init) the content of #table-container is the same after the failing
\* operation as before it.
ErrorLeavesDisplayUnchanged ==
    [][reported' # <<>> => container' = container]_vars

\* C11 (amended): on every error outcome the controller itself writes the
\* error block with the reported message into #table-container, replacing
\* its content; only a page without #table-container is left unchanged.
ErrorIsWrittenToDisplay ==
    [][reported' # <<>>
       => container' = IF "table-container" \in dom
                       THEN ErrorMarkup(reported'[Len(reported')])
                       ELSE container]_vars

\* A failed load replaced a rendered table by its error block.
ErrorIsWrittenWitness ==
    /\ lastOp.op = "loadRejected"
    /\ lastOk.some
    /\ reported = <<"fetch failed">>
    /\ container.kind = "error"
    /\ container.message = "fetch failed"

\* C12: the render performed by an init() whose load succeeded passes
\* theme 'light' and layout 'normal' to the generator.
InitRendersDefaultSelection ==
    lastOp.op = "initContinue"
       => \A k \in 1..Len(genCalls) :
             genCalls[k].theme = "light" /\ genCalls[k].layout = "normal"

\* C13: every theme or layout change event handled by the controller
\* triggers exactly one re-render: exactly one generate call per event.
ChangeEventRendersExactlyOnce ==
    [][(\/ lastOp'.op = "themeChange" /\ listeners.theme > 0
        \/ lastOp'.op = "layoutChange" /\ listeners.size > 0)
       => Len(genCalls') = 1]_vars

\* C14: over any sequence of init() calls the parser is asked for the data
\* once, and elements and config, once set, are never reassigned.
DataIsLoadedOnce ==
    [][/\ Cardinality({i \in Inits : pc'[i] # "idle"}) <= 1
       /\ config # Null => config' = config
       /\ elements # Null => elements' = elements]_vars

\* C15: a theme change modifies only currentTheme, a layout change only
\* currentLayout (each assigning the selected value), and export and
\* render modify none of currentTheme, currentLayout, elements, config.
SelectionChangesAreFramed ==
    [][/\ lastOp'.op = "themeChange"
          => /\ UNCHANGED <<currentLayout, elements, config>>
             /\ listeners.theme > 0 => currentTheme' = lastOp'.value
       /\ lastOp'.op = "layoutChange"
          => /\ UNCHANGED <<currentTheme, elements, config>>
             /\ listeners.size > 0 => currentLayout' = lastOp'.value
       /\ lastOp'.op \in {"exportClick", "exportSVG", "render"}
          => UNCHANGED <<currentTheme, currentLayout, elements, config>>]_vars

\* A change to 'compact' was handled while the theme was 'dark'.
SelectionChangesWitness ==
    /\ lastOp.op = "layoutChange"
    /\ lastOp.value = "compact"
    /\ currentLayout = "compact"
    /\ currentTheme = "dark"
    /\ genCalls # <<>>
    /\ genCalls[1].theme = "dark"
    /\ genCalls[1].layout = "compact"

\* The part of C16 about the failing init() itself: a rejected load or a
\* generate that throws in the first render ends in the catch block (the
\* promise of init() is settled by it, not rejected), the message is
\* reported through showError, and currentTheme and currentLayout are
\* unchanged; a rejected load attaches no listener and calls nothing.
InitFailureIsCaught ==
    /\ lastOp'.op = "loadRejected"
          => /\ pc'[lastOp'.init] = "loadFailed"
             /\ reported' = <<IF lastOp'.value = ""
                              THEN "Initialization failed"
                              ELSE lastOp'.value>>
             /\ UNCHANGED <<currentTheme, currentLayout, listeners>>
             /\ genCalls' = <<>>
             /\ downloads' = <<>>
    /\ (/\ lastOp'.op = "initContinue"
        /\ genCalls' # <<>>
        /\ ~genCalls'[1].returned)
          => /\ pc'[lastOp'.init] = "renderFailed"
             /\ Len(reported') = 1
             /\ reported'[1] \in ThrowMessages
             /\ UNCHANGED <<currentTheme, currentLayout>>

UiEvents == {"themeChange", "layoutChange", "exportClick"}

GenerateArgumentsFromOneLoad ==
    \A k \in 1..Len(genCalls) : genCalls[k].elements = genCalls[k].config
====
